---- MODULE Spec2Model ----
(***************************************************************************)
(* A model of skopt/parameter.py: the search-space dimensions (Real,       *)
(* Integer, Categorical), the grid normaliser check_grid and the lazy      *)
(* sampler sample_points.                                                  *)
(*                                                                         *)
(* Python values are records tagged by the field k. A call's outcome is a  *)
(* record [exc, val]: exc is "none" when the call returned val, and the    *)
(* name of the exception class when it raised.                             *)
(***************************************************************************)
EXTENDS Integers, Sequences, FiniteSets, TLC

VARIABLES
    heap,          \* the Python list objects: heap[id] is the content of list id
    grid,          \* the caller's `grid` argument
    n_points,      \* the caller's `n_points` argument
    random_state,  \* the caller's `random_state` argument
    sp_old,        \* whether sp_version < (0, 16) in this installation
    np_random,     \* the state of numpy's global RandomState singleton
    gen,           \* the generator objects made by the calls of sample_points
    call,          \* the arguments of a direct constructor / rvs / check_grid call
    obj,           \* the outcome of the constructor call
    ret,           \* the outcome of the last rvs or check_grid call
    pc             \* the caller's position

vars == <<heap, grid, n_points, random_state, sp_old, np_random, gen, call, obj, ret, pc>>

----------------------------------------------------------------------------
(* Bounds of the model.                                                    *)

\* numbers used as low / high are taken from 0..MaxNum
MaxNum == 2
\* n_samples of a direct rvs call is None or 1..MaxSamples
MaxSamples == 2
\* integer seeds are 0..MaxSeed
MaxSeed == 1
\* the random generators have 2^RngBits states
RngBits == 4

\* a grid handed to check_grid holds at most MaxEntries entries in all, in at
\* most MaxSubGrids sub-grids
MaxEntries == 2
MaxSubGrids == 2
\* the same for a grid handed to sample_points
MaxSampleEntries == 2
MaxSampleSubGrids == 2
\* n_points is taken from 0..MaxPoints
MaxPoints == 2
\* the two separate calls of sample_points, made with the same arguments
Calls == {1, 2}

RngMod == 2 ^ RngBits

----------------------------------------------------------------------------
(* Python values.                                                          *)

PyNone == [k |-> "none"]
PyInt(n) == [k |-> "int", v |-> n]
PyFloat(n) == [k |-> "float", v |-> n]
PyComplex(n) == [k |-> "complex", v |-> n]
PyStr(s) == [k |-> "str", s |-> s]
PyTuple(es) == [k |-> "tuple", elems |-> es]
PyList(id) == [k |-> "list", id |-> id]

Ok(v) == [exc |-> "none", val |-> v]
Raise(e) == [exc |-> e, val |-> PyNone]

IsStr(x) == x.k = "str"
StrEq(x, s) == x.k = "str" /\ x.s = s
\* numbers.Number / numbers.Real / numbers.Integral
IsNumber(x) == x.k \in {"int", "float", "complex"}
IsReal(x) == x.k \in {"int", "float"}
IsIntegral(x) == x.k = "int"

\* the transformer classes of the module, and sklearn's LabelEncoder
Identity == [k |-> "Identity"]
Log10 == [k |-> "Log10"]
Log == [k |-> "Log"]
LabelEncoder(classes) == [k |-> "LabelEncoder", classes |-> classes]
IsTransformerMixin(x) ==
    x.k \in {"Identity", "Log10", "Log", "CategoricalEncoder", "LabelEncoder"}

IsDistribution(x) == x.k \in {"Real", "Integer", "Categorical"}

\* scipy's frozen variates: uniform(loc, scale) draws from [loc, loc + scale),
\* randint(low, high) from the integers low .. high - 1
rv_frozen(dist, a, b) == [k |-> "rv_frozen", dist |-> dist, a |-> a, b |-> b]
IsRvFrozen(x) == x.k = "rv_frozen"
rv_discrete(pk) == [k |-> "rv_discrete", pk |-> pk]

----------------------------------------------------------------------------
(* The random generators. A RandomState object is its state; numpy's       *)
(* global singleton np.random keeps its state in the variable np_random.   *)

GlobalRng == [k |-> "np.random"]
RandomState(seed) == [k |-> "RandomState", s |-> seed % RngMod]

RngStep(s) == (5 * s + 3) % RngMod

\* sklearn.utils.check_random_state
check_random_state(seed) ==
    IF seed.k = "none" THEN Ok(GlobalRng)
    ELSE IF seed.k = "int" THEN Ok(RandomState(seed.v))
    ELSE IF seed.k \in {"RandomState", "np.random"} THEN Ok(seed)
    ELSE Raise("ValueError")

\* One raw draw u in 0..RngMod-1 (the variate u / RngMod of [0, 1)) from the
\* generator rng; g is the state of np.random. Gives the draw and both states.
RngDraw(rng, g) ==
    IF rng.k = "np.random"
    THEN [u |-> RngStep(g), rng |-> rng, g |-> RngStep(g)]
    ELSE [u |-> RngStep(rng.s), rng |-> [rng EXCEPT !.s = RngStep(rng.s)], g |-> g]

\* the integer of 0 .. n - 1 the raw draw d stands for
RandintOf(d, n) == [val |-> (d.u * n) \div RngMod, rng |-> d.rng, g |-> d.g]

\* rng.randint(0, n)
RngRandint(rng, g, n) == RandintOf(RngDraw(rng, g), n)

----------------------------------------------------------------------------
(* scipy's variates. A draw is made from a raw draw u of the generator.    *)

\* high - low on Python numbers: complex if either operand is complex, else
\* float if either is a float, else int
Sub(a, b) ==
    IF a.k = "complex" \/ b.k = "complex" THEN PyComplex(a.v - b.v)
    ELSE IF a.k = "float" \/ b.k = "float" THEN PyFloat(a.v - b.v)
    ELSE PyInt(a.v - b.v)

\* total weight of the first i entries of the weight vector pk
RECURSIVE CumWeight(_, _)
CumWeight(pk, i) == IF i = 0 THEN 0 ELSE pk[i] + CumWeight(pk, i - 1)

\* the value the variate rv gives for the raw draw u: uniform(a, b) gives
\* a + b * u / RngMod (kept as an exact fraction), randint(a, b) an integer of
\* a .. b - 1, rv_discrete the 0-based index found by inverting the CDF
Variate(rv, u) ==
    IF rv.k = "rv_discrete"
    THEN LET tot == CumWeight(rv.pk, Len(rv.pk))
         IN  PyInt((CHOOSE i \in 1..Len(rv.pk) :
                       /\ u * tot < RngMod * CumWeight(rv.pk, i)
                       /\ \A j \in 1..(i - 1) : ~(u * tot < RngMod * CumWeight(rv.pk, j))) - 1)
    ELSE IF rv.dist = "uniform"
    THEN [k |-> "float", num |-> rv.a.v * RngMod + rv.b.v * u, den |-> RngMod]
    ELSE PyInt(rv.a.v + ((rv.b.v - rv.a.v) * u) \div RngMod)

\* the draws st = [vals, rng, g] made so far, and the raw draw d made next
DrawOne(rv, st, d) ==
    [vals |-> Append(st.vals, Variate(rv, d.u)), rng |-> d.rng, g |-> d.g]

\* n more draws of rv in a row: the values drawn and the generator states after
RECURSIVE DrawMany(_, _, _)
DrawMany(rv, n, st) ==
    IF n = 0 THEN st
    ELSE DrawMany(rv, n - 1, DrawOne(rv, st, RngDraw(st.rng, st.g)))

\* the outcome of rvs from the draws d: size None gives a scalar, size n an
\* array; a RandomState the caller handed in has advanced
ScipyResult(size, rs, d) ==
    [exc |-> "none",
     val |-> IF size.k = "none" THEN d.vals[1] ELSE [k |-> "array", elems |-> d.vals],
     rs |-> IF rs.k \in {"RandomState", "np.random"} THEN d.rng ELSE rs,
     g |-> d.g]

\* the draws of rvs from the generator c = check_random_state(rs)
ScipyDraw(rv, size, rs, g, c) ==
    IF c.exc # "none" THEN [exc |-> c.exc, val |-> PyNone, rs |-> rs, g |-> g]
    ELSE ScipyResult(size, rs,
             DrawMany(rv, IF size.k = "none" THEN 1 ELSE size.v,
                      [vals |-> <<>>, rng |-> c.val, g |-> g]))

\* rv.rvs(size=size, random_state=rs) of scipy: the draws come from rs when it
\* is given (an int seeds a new generator for this call) and from np.random
\* when rs is None. The outcome also carries rs and np.random after the call.
ScipyRvs(rv, size, rs, g) == ScipyDraw(rv, size, rs, g, check_random_state(rs))

----------------------------------------------------------------------------
(* The transformers and the distributions.                                 *)

SeqRange(s) == {s[i] : i \in 1..Len(s)}

\* CategoricalEncoder().fit(values): the fitted one-hot encoder
CategoricalEncoderFit(values) ==
    [k |-> "CategoricalEncoder", fitted |-> TRUE, classes |-> SeqRange(values)]

\* Real.__init__
Real(low, high, prior, transformer) ==
    LET tr == IF StrEq(transformer, "identity") THEN Ok(Identity)
              ELSE IF StrEq(transformer, "log") THEN Ok(Log)
              ELSE IF StrEq(transformer, "log10") THEN Ok(Log10)
              ELSE IF IsTransformerMixin(transformer) THEN Ok(transformer)
              ELSE Raise("RuntimeError")
        self(r) == [k |-> "Real", low |-> low, high |-> high,
                    transformer |-> tr.val, rvs |-> r]
    IN  IF tr.exc # "none" THEN tr
        ELSE IF StrEq(prior, "uniform")
        THEN IF IsNumber(low) /\ IsNumber(high)
             THEN Ok(self(rv_frozen("uniform", low, Sub(high, low))))
             ELSE Raise("TypeError")
        ELSE IF IsRvFrozen(prior) THEN Ok(self(prior))
        \* the message of the ValueError reads self._rvs, which is not set
        ELSE Raise("AttributeError")

\* Integer.__init__
Integer(low, high, prior, transformer) ==
    LET tr == IF StrEq(transformer, "identity") THEN Ok(Identity)
              ELSE IF IsTransformerMixin(transformer) THEN Ok(transformer)
              ELSE Raise("RuntimeError")
        self(r) == [k |-> "Integer", low |-> low, high |-> high,
                    transformer |-> tr.val, rvs |-> r]
    IN  IF tr.exc # "none" THEN tr
        ELSE IF StrEq(prior, "uniform") THEN Ok(self(rv_frozen("randint", low, high)))
        ELSE IF IsRvFrozen(prior) THEN Ok(self(prior))
        \* the message of the ValueError reads self._rvs, which is not set
        ELSE Raise("AttributeError")

\* the keyword defaults of the three constructors
RealDefaults == [prior |-> PyStr("uniform"), transformer |-> PyStr("identity")]
IntegerDefaults == [prior |-> PyStr("uniform"), transformer |-> PyStr("identity")]
CategoricalDefaults == [prior |-> PyNone, transformer |-> PyStr("one-hot")]

\* Categorical.__init__; categories is the sequence of the positional arguments
Categorical(categories, prior, transformer) ==
    LET n == Len(categories)
        \* 'onehot' names the class CategoryTransform, which the module lacks
        tr == IF StrEq(transformer, "onehot") THEN Raise("NameError")
              ELSE IF StrEq(transformer, "labels")
              THEN Ok(LabelEncoder(SeqRange(categories)))
              ELSE IF IsTransformerMixin(transformer) THEN Ok(transformer)
              ELSE Raise("RuntimeError")
        pk == IF prior.k = "none" THEN [i \in 1..n |-> 1] ELSE prior.w
    IN  IF tr.exc # "none" THEN tr
        ELSE IF prior.k = "none" /\ n = 0 THEN Raise("ZeroDivisionError")
        ELSE Ok([k |-> "Categorical", categories |-> categories,
                 transformer |-> tr.val, rvs |-> rv_discrete(pk)])

\* line 154 (and 198): np.clip is handed the names low and high, which no
\* scope defines, once the draw r has been made
Clip(r) ==
    IF r.exc # "none" THEN r
    ELSE [exc |-> "NameError", val |-> PyNone, rs |-> r.rs, g |-> r.g]

\* Real.rvs and Integer.rvs
ClippedRvs(self, n_samples, rs, g) == Clip(ScipyRvs(self.rvs, n_samples, rs, g))

\* line 239: the categories at the indices drawn in r
Choices(self, n_samples, r) ==
    IF r.exc # "none" THEN r
    ELSE [r EXCEPT !.val =
             IF n_samples.k = "none" THEN self.categories[r.val.v + 1]
             ELSE [k |-> "array",
                   elems |-> [i \in 1..Len(r.val.elems) |->
                                 self.categories[r.val.elems[i].v + 1]]]]

\* Categorical.rvs
CategoricalRvs(self, n_samples, rs, g) ==
    Choices(self, n_samples, ScipyRvs(self.rvs, n_samples, rs, g))

\* dist.rvs(n_samples, random_state=rs) on any Python value dist
Rvs(dist, n_samples, rs, g) ==
    IF dist.k \in {"Real", "Integer"} THEN ClippedRvs(dist, n_samples, rs, g)
    ELSE IF dist.k = "Categorical" THEN CategoricalRvs(dist, n_samples, rs, g)
    ELSE [exc |-> "AttributeError", val |-> PyNone, rs |-> rs, g |-> g]

----------------------------------------------------------------------------
(* Python's sequence protocol on the values of the model. Lists live in    *)
(* the heap h and are handled by reference; the strings that occur in a    *)
(* grid are one-character labels, so len(x) = 1 and x[0] = x for them.     *)

\* isinstance(x, collections.Sequence)
IsSequence(x) == x.k \in {"tuple", "list", "str"}

\* the elements of the sequence x
Elems(h, x) ==
    IF x.k = "tuple" THEN x.elems ELSE IF x.k = "list" THEN h[x.id] ELSE <<x>>

\* x[0]
PyItem0(h, x) ==
    IF ~IsSequence(x) THEN Raise("TypeError")
    ELSE IF Len(Elems(h, x)) = 0 THEN Raise("IndexError")
    ELSE Ok(Elems(h, x)[1])

\* a list built with the content c: the heap with the new list, and its id
NewList(h, c) == [exc |-> "none", heap |-> Append(h, c), id |-> Len(h) + 1]

\* a defect for comparison: the sub-grid list itself is used, not a copy of it
AliasList(h, x) ==
    IF ~IsSequence(x) THEN [exc |-> "TypeError", heap |-> h, id |-> 0]
    ELSE IF x.k = "list" THEN [exc |-> "none", heap |-> h, id |-> x.id]
    ELSE NewList(h, Elems(h, x))

\* list(x)
CopyList(h, x) ==
    IF ~IsSequence(x) THEN [exc |-> "TypeError", heap |-> h, id |-> 0]
    ELSE NewList(h, Elems(h, x))

----------------------------------------------------------------------------
(* check_grid.                                                             *)

\* the second half of the test of line 245, on g00 = grid[0][0]
FlatFirst(g00) ==
    IF g00.exc # "none" THEN g00 ELSE Ok(IsNumber(g00.val) \/ IsStr(g00.val))

\* the test of line 245 on g0 = grid[0]
FlatTest(h, g0) ==
    IF g0.exc # "none" THEN g0
    ELSE IF IsDistribution(g0.val) THEN Ok(TRUE)
    ELSE IF ~IsSequence(g0.val) THEN Ok(FALSE)
    ELSE FlatFirst(PyItem0(h, g0.val))

\* the test of line 245: whether the grid is one flat sub-grid
IsFlat(h, g) == FlatTest(h, PyItem0(h, g))

\* Integer(*dist) and Real(*dist): low and high are required, prior and
\* transformer may follow as the third and fourth positional argument, and
\* a call with fewer than two or more than four arguments is a TypeError
CallInteger(args) ==
    IF Len(args) < 2 \/ Len(args) > 4 THEN Raise("TypeError")
    ELSE Integer(args[1], args[2],
                 IF Len(args) >= 3 THEN args[3] ELSE IntegerDefaults.prior,
                 IF Len(args) >= 4 THEN args[4] ELSE IntegerDefaults.transformer)
CallReal(args) ==
    IF Len(args) < 2 \/ Len(args) > 4 THEN Raise("TypeError")
    ELSE Real(args[1], args[2],
              IF Len(args) >= 3 THEN args[3] ELSE RealDefaults.prior,
              IF Len(args) >= 4 THEN args[4] ELSE RealDefaults.transformer)
\* Categorical(*dist)
CallCategorical(args) ==
    Categorical(args, CategoricalDefaults.prior, CategoricalDefaults.transformer)

\* the elif chain of lines 261-269 on an entry that is a sequence of the
\* elements es: len(dist) is Len(es), and dist[0] raises when there is none
ClassifySeq(dist, es) ==
    IF Len(es) > 2 THEN CallCategorical(es)
    ELSE IF Len(es) = 0 THEN Raise("IndexError")
    ELSE IF IsStr(es[1]) THEN CallCategorical(es)
    ELSE IF IsIntegral(es[1]) THEN CallInteger(es)
    ELSE IF IsReal(es[1]) THEN CallReal(es)
    ELSE Ok(dist)

\* the if / elif chain of lines 258-269 on one entry: the value the entry
\* holds afterwards, or the exception raised (len() of a non-sequence)
Classify(h, dist) ==
    IF IsDistribution(dist) THEN Ok(dist)
    ELSE IF ~IsSequence(dist) THEN Raise("TypeError")
    ELSE ClassifySeq(dist, Elems(h, dist))

RECURSIVE NormalizeEntries(_, _, _)
\* entry i of the list id has been classified as c
EntryDone(h, id, i, c) ==
    IF c.exc # "none" THEN [exc |-> c.exc, heap |-> h]
    ELSE NormalizeEntries([h EXCEPT ![id][i] = c.val], id, i + 1)

\* the inner loop of lines 257-269 on the list sub_grid_ = id, from entry i
NormalizeEntries(h, id, i) ==
    IF i > Len(h[id]) THEN [exc |-> "none", heap |-> h]
    ELSE EntryDone(h, id, i, Classify(h, h[id][i]))

RECURSIVE NormalizeSubGrids(_, _, _, _)
\* the entries of sub-grid j have been normalised
SubGridDone(outer, out, j, done) ==
    IF done.exc # "none" THEN done
    ELSE NormalizeSubGrids(done.heap, outer, out, j + 1)

\* lines 254-255: sub-grid j has been copied, the copy is appended to grid_
SubGridCopied(h, outer, out, j, copy) ==
    IF copy.exc # "none" THEN [exc |-> copy.exc, heap |-> h]
    ELSE SubGridDone(outer, out, j,
             NormalizeEntries([copy.heap EXCEPT ![out] = Append(@, PyList(copy.id))],
                              copy.id, 1))

\* the outer loop of lines 253-269 over the sub-grids, from sub-grid j;
\* outer is the grid being iterated and out is the id of the list grid_
NormalizeSubGrids(h, outer, out, j) ==
    IF j > Len(Elems(h, outer)) THEN [exc |-> "none", heap |-> h]
    ELSE SubGridCopied(h, outer, out, j, CopyList(h, Elems(h, outer)[j]))

\* line 271: grid_ = list out is returned unless the loops raised
GridDone(out, done) ==
    IF done.exc # "none" THEN [exc |-> done.exc, val |-> PyNone, heap |-> done.heap]
    ELSE [exc |-> "none", val |-> PyList(out), heap |-> done.heap]

\* lines 252-271 on the grid g: grid_ is the new list Len(h) + 1
NormalizeAll(h, g) ==
    GridDone(Len(h) + 1, NormalizeSubGrids(NewList(h, <<>>).heap, g, Len(h) + 1, 1))

\* lines 245-248: a flat grid is wrapped in a new one-element list
WrapIfFlat(h, g, flat) ==
    IF flat.exc # "none" THEN [exc |-> flat.exc, val |-> PyNone, heap |-> h]
    ELSE IF flat.val THEN NormalizeAll(NewList(h, <<g>>).heap, PyList(Len(h) + 1))
    ELSE NormalizeAll(h, g)

\* check_grid(grid) run on the heap h: the outcome and the heap afterwards
check_grid(h, g) == WrapIfFlat(h, g, IsFlat(h, g))

----------------------------------------------------------------------------
(* The inputs of the direct constructor and rvs calls.                     *)

Labels == {"a", "b", "c"}

\* the non-empty sequences of distinct labels
LabelSeqs ==
    {c \in UNION {[1..n -> {PyStr(l) : l \in Labels}] : n \in 1..Cardinality(Labels)} :
        \A i, j \in 1..Len(c) : c[i] = c[j] => i = j}

\* a caller's frozen variates, which draw below low and above high
WideUniform == rv_frozen("uniform", PyFloat(0 - 1), PyFloat(MaxNum + 2))
WideRandint == rv_frozen("randint", PyInt(0 - 1), PyInt(MaxNum + 2))

NumericPriors ==
    {PyStr("uniform"), WideUniform, WideRandint, PyStr("normal"), PyNone}
NumericTransformers ==
    {PyStr("identity"), PyStr("log"), PyStr("log10"), PyStr("sqrt"), Log10, PyNone}

CtorCalls ==
    {[cls |-> "Real", low |-> PyFloat(l), high |-> PyFloat(h),
      prior |-> p, transformer |-> t] :
        l \in 0..MaxNum, h \in 0..MaxNum, p \in NumericPriors, t \in NumericTransformers}
    \cup
    {[cls |-> "Integer", low |-> PyInt(l), high |-> PyInt(h),
      prior |-> p, transformer |-> t] :
        l \in 0..MaxNum, h \in 0..MaxNum, p \in NumericPriors, t \in NumericTransformers}
    \cup
    {[cls |-> "Categorical", categories |-> c, transformer |-> t,
      prior |-> IF weighted THEN [k |-> "array", w |-> [i \in 1..Len(c) |-> i]]
                ELSE PyNone] :
        c \in LabelSeqs, weighted \in BOOLEAN,
        t \in {PyStr("one-hot"), PyStr("onehot"), PyStr("labels"), PyStr("sqrt"),
               CategoricalEncoderFit(<<PyStr("a")>>)}}

\* a constructor call made with the arguments c
Construct(c) ==
    IF c.cls = "Real" THEN Real(c.low, c.high, c.prior, c.transformer)
    ELSE IF c.cls = "Integer" THEN Integer(c.low, c.high, c.prior, c.transformer)
    ELSE Categorical(c.categories, c.prior, c.transformer)

NoGen == <<>>

InitDist ==
    /\ call \in {c \in CtorCalls :
                    c.cls \in {"Real", "Integer"} => c.low.v < c.high.v}
    /\ np_random \in 0..MaxSeed
    /\ obj = Ok(PyNone)
    /\ ret = [exc |-> "none", val |-> PyNone, rs |-> PyNone, g |-> np_random]
    /\ pc = "start"
    /\ heap = <<>> /\ grid = PyNone /\ n_points = 0 /\ random_state = PyNone
    /\ sp_old = FALSE /\ gen = NoGen

\* the caller constructs the distribution
CallConstructor ==
    /\ pc = "start"
    /\ obj' = Construct(call)
    /\ pc' = "constructed"
    /\ UNCHANGED <<heap, grid, n_points, random_state, sp_old, np_random, gen, call, ret>>

\* rvs has come back with r = [exc, val, rs, g]
Sampled(r) ==
    /\ ret' = r
    /\ np_random' = r.g
    /\ pc' = "sampled"
    /\ UNCHANGED <<heap, grid, n_points, random_state, sp_old, gen, obj>>

\* the caller draws from the distribution it constructed
CallRvs ==
    /\ pc = "constructed"
    /\ obj.exc = "none"
    /\ \E n \in {PyNone} \cup {PyInt(i) : i \in 1..MaxSamples},
          rs \in {PyNone} \cup {PyInt(i) : i \in 0..MaxSeed}
                          \cup {RandomState(i) : i \in 0..MaxSeed} :
          /\ call' = call @@ [n_samples |-> n, random_state |-> rs]
          /\ Sampled(Rvs(obj.val, n, rs, np_random))

\* the caller fits again the CategoricalEncoder it handed to the constructor:
\* fit returns self, so the distribution's transformer is the re-fitted object
CallFit ==
    /\ pc \in {"constructed", "sampled"}
    /\ obj.exc = "none"
    /\ obj.val.transformer.k = "CategoricalEncoder"
    /\ \E values \in LabelSeqs :
          obj' = [obj EXCEPT !.val.transformer = CategoricalEncoderFit(values)]
    /\ UNCHANGED <<heap, grid, n_points, random_state, sp_old, np_random, gen, call, ret, pc>>

NextDist == CallConstructor \/ CallRvs \/ CallFit

SpecDist == InitDist /\ [][NextDist]_vars

----------------------------------------------------------------------------
(* The grids handed to check_grid.                                         *)

\* the lengths of the raw per-dimension specs
SpecLens == 1..3

\* the raw spec of length n that starts with the value first: a tuple whose
\* later elements continue first (1, 2, 3 or "a", "b", "c")
RawSpec(first, n) ==
    PyTuple([i \in 1..n |->
        IF i = 1 THEN first
        ELSE IF first.k = "str" THEN PyStr(IF i = 2 THEN "b" ELSE "c")
        ELSE IF first.k = "float" THEN PyFloat(i)
        ELSE PyInt(i)])

RawSpecs ==
    {RawSpec(first, n) :
        first \in {PyInt(1), PyFloat(1), PyStr("a"), PyNone, PyComplex(1)},
        n \in SpecLens}

\* distributions the caller has built itself
ReadyReal == Real(PyFloat(0), PyFloat(1), RealDefaults.prior, RealDefaults.transformer).val
ReadyInteger ==
    Integer(PyInt(0), PyInt(2), IntegerDefaults.prior, IntegerDefaults.transformer).val
ReadyCategorical ==
    Categorical(<<PyStr("a"), PyStr("b")>>, CategoricalDefaults.prior, PyStr("labels")).val

GridEntries == RawSpecs \cup {ReadyReal, ReadyInteger, ReadyCategorical}

\* the caller's heap for a flat grid (one list of entries) and for a nested
\* grid (a list of lists of entries); the grid is list 1 in both
FlatHeap(entries) == <<entries>>
NestedHeap(subgrids) ==
    <<[j \in 1..Len(subgrids) |-> PyList(j + 1)]>> \o subgrids

\* the ways to cut t entries into k consecutive sub-grids, as their lengths
RECURSIVE SumTo(_, _)
SumTo(c, j) == IF j = 0 THEN 0 ELSE c[j] + SumTo(c, j - 1)
Cuts(k, t) == {c \in [1..k -> 0..t] : SumTo(c, k) = t}
CutAt(es, c) == [j \in 1..Len(c) |-> SubSeq(es, SumTo(c, j - 1) + 1, SumTo(c, j))]

\* h is the heap of a grid over the entries E within the bounds: a flat grid of
\* at most maxEntries entries, or at most maxSub sub-grids holding at most
\* maxEntries entries in all
GridHeap(h, E, maxSub, maxEntries) ==
    \E t \in 0..maxEntries : \E es \in [1..t -> E] :
        \/ h = FlatHeap(es)
        \/ \E k \in 1..maxSub : \E c \in Cuts(k, t) : h = NestedHeap(CutAt(es, c))

InitGrid ==
    /\ GridHeap(heap, GridEntries, MaxSubGrids, MaxEntries)
    /\ grid = PyList(1)
    /\ call = [heap |-> heap, grid |-> grid]
    /\ ret = Ok(PyNone)
    /\ pc = "start"
    /\ n_points = 0 /\ random_state = PyNone /\ sp_old = FALSE
    /\ np_random = 0 /\ gen = NoGen /\ obj = Ok(PyNone)

\* check_grid has come back with r = [exc, val, heap]
Checked(r) ==
    /\ heap' = r.heap
    /\ ret' = [exc |-> r.exc, val |-> r.val]
    /\ pc' = "checked"
    /\ UNCHANGED <<grid, n_points, random_state, sp_old, np_random, gen, call, obj>>

\* the caller calls check_grid(grid)
CallCheckGrid ==
    /\ pc = "start"
    /\ Checked(check_grid(heap, grid))

NextGrid == CallCheckGrid

SpecGrid == InitGrid /\ [][NextGrid]_vars

----------------------------------------------------------------------------
(* sample_points, a generator function: the call only makes the generator  *)
(* object, and the body runs, up to the next yield, on each next().        *)

\* lines 284-287: one dimension's draw; an old scipy is not handed the
\* generator. The field rs of the outcome is the generator rng afterwards.
DimRvs(dist, rng, g, old) ==
    IF old THEN [Rvs(dist, PyNone, PyNone, g) EXCEPT !.rs = rng]
    ELSE Rvs(dist, PyNone, rng, g)

RECURSIVE DrawParams(_, _, _, _)
\* line 285 / 287: dimension i has drawn r; st = [exc, params, rng, g] is the
\* state of the draws before it
ParamDrawn(sub_grid, i, st, old, r) ==
    IF r.exc # "none" THEN [exc |-> r.exc, params |-> <<>>, rng |-> r.rs, g |-> r.g]
    ELSE DrawParams(sub_grid, i + 1,
                    [exc |-> "none", params |-> Append(st.params, r.val),
                     rng |-> r.rs, g |-> r.g],
                    old)

\* lines 282-287: the draws of the dimensions of sub_grid from entry i on;
\* gives the values drawn and the generator states, or the exception raised
DrawParams(sub_grid, i, st, old) ==
    IF i > Len(sub_grid) THEN st
    ELSE ParamDrawn(sub_grid, i, st, old, DimRvs(sub_grid[i], st.rng, st.g, old))

\* the generator object before its body has run
NewGenerator ==
    [state |-> "created", grid_ |-> PyNone, rng |-> PyNone, n |-> 0,
     yielded |-> <<>>, exc |-> "none", at |-> "none"]
Unborn == [NewGenerator EXCEPT !.state = "unborn"]

\* line 288: the point d is yielded, unless a draw raised
Yield(self, d) ==
    IF d.exc # "none"
    THEN [gen |-> [self EXCEPT !.state = "raised", !.exc = d.exc,
                               !.at = "rvs", !.rng = d.rng],
          g |-> d.g]
    ELSE [gen |-> [self EXCEPT !.state = "suspended", !.rng = d.rng, !.n = @ + 1,
                               !.yielded = Append(@, PyTuple(d.params))],
          g |-> d.g]

\* lines 280-287: the sub-grid at the index pick is drawn from
LoopBody(self, h, old, pick) ==
    Yield(self,
          DrawParams(h[h[self.grid_.id][pick.val + 1].id], 1,
                     [exc |-> "none", params |-> <<>>, rng |-> pick.rng, g |-> pick.g],
                     old))

\* lines 279-288: the loop from its head to the next yield, the end of the
\* range or an exception; h is the heap and g the state of np.random
LoopStep(self, h, g, points, old) ==
    IF self.n >= points
    THEN [gen |-> [self EXCEPT !.state = "finished"], g |-> g]
    ELSE LoopBody(self, h, old, RngRandint(self.rng, g, Len(h[self.grid_.id])))

\* the heap h beside the outcome r of the loop
WithHeap(r, h) == [gen |-> r.gen, heap |-> h, g |-> r.g]

\* lines 275-277, with c the outcome of check_grid and r that of
\* check_random_state, and the loop up to the first yield
Started(self, g, points, old, c, r) ==
    IF c.exc # "none"
    THEN [gen |-> [self EXCEPT !.state = "raised", !.exc = c.exc, !.at = "check_grid"],
          heap |-> c.heap, g |-> g]
    ELSE IF r.exc # "none"
    THEN [gen |-> [self EXCEPT !.state = "raised", !.exc = r.exc,
                               !.at = "check_random_state", !.grid_ = c.val],
          heap |-> c.heap, g |-> g]
    ELSE WithHeap(LoopStep([self EXCEPT !.grid_ = c.val, !.rng = r.val],
                           c.heap, g, points, old),
                  c.heap)

\* the body of sample_points up to the first yield: the first next()
FirstStep(self, h, g, grd, points, seed, old) ==
    Started(self, g, points, old, check_grid(h, grd), check_random_state(seed))

\* the grids sampled: categorical dimensions the caller has built (the only
\* ones whose rvs returns), and raw specs
WeightedCategorical ==
    Categorical(<<PyStr("c"), PyStr("a"), PyStr("b")>>,
                [k |-> "array", w |-> <<1, 2, 1>>], PyStr("labels")).val
SampleEntries ==
    {ReadyCategorical, WeightedCategorical,
     RawSpec(PyInt(1), 2), RawSpec(PyStr("a"), 3), RawSpec(PyNone, 2)}

InitSample ==
    /\ GridHeap(heap, SampleEntries, MaxSampleSubGrids, MaxSampleEntries)
    /\ grid = PyList(1)
    /\ n_points \in 0..MaxPoints
    /\ random_state \in {PyNone} \cup {PyInt(i) : i \in 0..MaxSeed}
    /\ sp_old \in BOOLEAN
    /\ np_random = 0
    /\ gen = [i \in Calls |-> Unborn]
    /\ call = [heap |-> heap, grid |-> grid]
    /\ obj = Ok(PyNone) /\ ret = Ok(PyNone)
    /\ pc = "start"

\* the caller calls sample_points(grid, n_points, random_state)
CallSamplePoints(i) ==
    /\ gen[i].state = "unborn"
    /\ gen' = [gen EXCEPT ![i] = NewGenerator]
    /\ UNCHANGED <<heap, grid, n_points, random_state, sp_old, np_random, call, obj, ret, pc>>

\* generator i has run to r = [gen, heap, g]
Resumed(i, r) ==
    /\ gen' = [gen EXCEPT ![i] = r.gen]
    /\ heap' = r.heap
    /\ np_random' = r.g
    /\ UNCHANGED <<grid, n_points, random_state, sp_old, call, obj, ret, pc>>

\* the caller asks generator i for its first item
FirstNext(i) ==
    /\ gen[i].state = "created"
    /\ Resumed(i, FirstStep(gen[i], heap, np_random, grid, n_points, random_state, sp_old))

\* the caller asks generator i for a further item
LaterNext(i) ==
    /\ gen[i].state = "suspended"
    /\ Resumed(i, WithHeap(LoopStep(gen[i], heap, np_random, n_points, sp_old), heap))

NextSample ==
    \E i \in Calls : CallSamplePoints(i) \/ FirstNext(i) \/ LaterNext(i)

SpecSample == InitSample /\ [][NextSample]_vars

----------------------------------------------------------------------------
(* Claims about the constructors and rvs, checked under SpecDist.          *)

\* whether the drawn value v lies in [low, high]
InBounds(v, low, high) ==
    IF v.k = "float" THEN low.v * v.den <= v.num /\ v.num <= high.v * v.den
    ELSE low.v <= v.v /\ v.v <= high.v

\* C3: every rvs call on a Real or Integer distribution returns, and every
\* value it returns lies in [low, high] of that distribution.
C3_RvsWithinBounds ==
    (pc = "sampled" /\ call.cls \in {"Real", "Integer"}) =>
        /\ ret.exc = "none"
        /\ IF call.n_samples.k = "none" THEN InBounds(ret.val, call.low, call.high)
           ELSE \A i \in 1..Len(ret.val.elems) :
                    InBounds(ret.val.elems[i], call.low, call.high)

\* the transformer strings each numeric variant recognizes
KnownTransformers(cls) ==
    IF cls = "Real" THEN {"identity", "log", "log10"} ELSE {"identity"}
ValidTransformer(cls, t) ==
    IsTransformerMixin(t) \/ (IsStr(t) /\ t.s \in KnownTransformers(cls))
ValidPrior(p) == StrEq(p, "uniform") \/ IsRvFrozen(p)

\* C7: constructing a Real or Integer with an invalid transformer or an
\* invalid prior raises RuntimeError or ValueError.
C7_InvalidArgumentError ==
    (/\ pc = "constructed"
     /\ call.cls \in {"Real", "Integer"}
     /\ ~(ValidTransformer(call.cls, call.transformer) /\ ValidPrior(call.prior)))
        => obj.exc \in {"RuntimeError", "ValueError"}

\* C8: constructing a Categorical from distinct labels with the default
\* transformer succeeds and gives it a one-hot encoder fitted on the labels.
C8_DefaultOneHotFitted ==
    (/\ pc = "constructed"
     /\ call.cls = "Categorical"
     /\ call.transformer = CategoricalDefaults.transformer)
        => /\ obj.exc = "none"
           /\ obj.val.transformer = CategoricalEncoderFit(call.categories)

----------------------------------------------------------------------------
(* Claims about check_grid, checked under SpecGrid. call.heap is the       *)
(* caller's data as it was before the call.                                *)

\* the documented rule for a flat input, read on the caller's grid
FlatByRule ==
    LET e == call.heap[1][1]
    IN  \/ IsDistribution(e)
        \/ /\ IsSequence(e)
           /\ Len(Elems(call.heap, e)) > 0
           /\ LET f == Elems(call.heap, e)[1] IN IsNumber(f) \/ IsStr(f)

\* the sub-grids of the input by that rule, and those of the returned grid
InputSubGrids ==
    IF FlatByRule THEN <<call.heap[1]>>
    ELSE [j \in 1..Len(call.heap[1]) |-> Elems(call.heap, call.heap[1][j])]
ResultSubGrids ==
    [j \in 1..Len(heap[ret.val.id]) |-> heap[heap[ret.val.id][j].id]]

\* the raw specs the documented classification covers, and what it asks for
Covered(e) ==
    \/ IsDistribution(e)
    \/ /\ e.k = "tuple"
       /\ \/ Len(e.elems) > 2
          \/ IsStr(e.elems[1])
          \/ Len(e.elems) = 2 /\ IsReal(e.elems[1])
Classified(e, r) ==
    IF IsDistribution(e) THEN r = e
    ELSE IF Len(e.elems) > 2 \/ IsStr(e.elems[1])
    THEN r.k = "Categorical" /\ r.categories = e.elems
    ELSE /\ r.k = (IF IsIntegral(e.elems[1]) THEN "Integer" ELSE "Real")
         /\ r.low = e.elems[1]
         /\ r.high = e.elems[2]

\* the input is a grid of non-empty sub-grids whose entries all satisfy P
GridOf(P(_)) ==
    /\ Len(call.heap[1]) > 0
    /\ \A j \in 1..Len(InputSubGrids) :
           /\ Len(InputSubGrids[j]) > 0
           /\ \A i \in 1..Len(InputSubGrids[j]) : P(InputSubGrids[j][i])

\* C4: every raw spec the documented rule covers is replaced by the
\* distribution the rule names, and a Distribution is left in place.
C4_ClassifiedByRule ==
    (pc = "checked" /\ GridOf(Covered))
        => /\ ret.exc = "none"
           /\ Len(ResultSubGrids) = Len(InputSubGrids)
           /\ \A j \in 1..Len(InputSubGrids) :
                 /\ Len(ResultSubGrids[j]) = Len(InputSubGrids[j])
                 /\ \A i \in 1..Len(InputSubGrids[j]) :
                        Classified(InputSubGrids[j][i], ResultSubGrids[j][i])

\* the entry r of the result stands for the entry e of the input
FromEntry(e, r) ==
    \/ r = e
    \/ /\ e.k = "tuple"
       /\ r.k = "Categorical" => r.categories = e.elems
       /\ r.k \in {"Real", "Integer"} => r.low = e.elems[1]

\* C5: a flat input of m specs gives one sub-grid of m entries in input
\* order, a nested input of k sub-grids gives k sub-grids of the same lengths.
C5_FlatOrNestedShape ==
    (pc = "checked" /\ GridOf(Covered))
        => /\ ret.exc = "none"
           /\ Len(ResultSubGrids) = Len(InputSubGrids)
           /\ \A j \in 1..Len(InputSubGrids) :
                 /\ Len(ResultSubGrids[j]) = Len(InputSubGrids[j])
                 /\ \A i \in 1..Len(InputSubGrids[j]) :
                        FromEntry(InputSubGrids[j][i], ResultSubGrids[j][i])

\* a spec of two elements whose first is neither a number nor a string
Unclassifiable(e) ==
    e.k = "tuple" /\ Len(e.elems) = 2 /\ ~IsNumber(e.elems[1]) /\ ~IsStr(e.elems[1])

CoveredOrUnclassifiable(e) == Covered(e) \/ Unclassifiable(e)

\* C6: check_grid returns only Distribution entries, and raises an
\* invalid-argument error when a sub-grid holds an unclassifiable spec.
C6_OnlyDistributionsReturned ==
    (pc = "checked" /\ GridOf(CoveredOrUnclassifiable)) =>
        /\ ret.exc = "none" =>
              \A j \in 1..Len(ResultSubGrids) : \A i \in 1..Len(ResultSubGrids[j]) :
                  IsDistribution(ResultSubGrids[j][i])
        /\ (\E j \in 1..Len(InputSubGrids) : \E i \in 1..Len(InputSubGrids[j]) :
                Unclassifiable(InputSubGrids[j][i]))
              => ret.exc \in {"ValueError", "TypeError", "RuntimeError"}

\* C9: after check_grid, returning or raising, every list of the caller holds
\* what it held before, and the returned grid and sub-grids are new lists.
C9_CallerDataUnchanged ==
    pc = "checked" =>
        /\ \A id \in 1..Len(call.heap) : heap[id] = call.heap[id]
        /\ ret.exc = "none" =>
              /\ ret.val.id > Len(call.heap)
              /\ \A j \in 1..Len(heap[ret.val.id]) :
                     heap[ret.val.id][j].id > Len(call.heap)

\* C9 witness: a nested grid was normalised and a raw spec of the caller's
\* sub-grid shows as a Distribution in the result.
C9_Witness ==
    /\ pc = "checked"
    /\ ret.exc = "none"
    /\ Len(call.heap) > 1
    /\ \E j \in 1..Len(ResultSubGrids) : \E i \in 1..Len(ResultSubGrids[j]) :
           /\ call.heap[j + 1][i].k = "tuple"
           /\ IsDistribution(ResultSubGrids[j][i])

----------------------------------------------------------------------------
(* Claims about sample_points, checked under SpecSample.                   *)

\* whether the value v can be a draw of the dimension dist
InSupport(dist, v) ==
    IF dist.k = "Categorical" THEN v \in SeqRange(dist.categories)
    ELSE IF dist.k \in {"Real", "Integer"} THEN InBounds(v, dist.low, dist.high)
    ELSE FALSE

\* whether the tuple t is a point of the sub-grid sg
PointOf(t, sg) ==
    /\ Len(t.elems) = Len(sg)
    /\ \A d \in 1..Len(sg) : InSupport(sg[d], t.elems[d])

\* the iteration a holds a normalised grid, every entry a Distribution
Normalised(a) ==
    /\ a.grid_.k = "list"
    /\ \A j \in 1..Len(heap[a.grid_.id]) :
           \A d \in 1..Len(heap[heap[a.grid_.id][j].id]) :
               IsDistribution(heap[heap[a.grid_.id][j].id][d])

\* C1: once the grid has normalised, iterating yields exactly n_points
\* tuples and then ends, each tuple a point of one of the sub-grids.
C1_ExactlyNPointsOfOneSubGrid ==
    \A i \in Calls :
        Normalised(gen[i]) =>
            /\ gen[i].state # "raised"
            /\ Len(gen[i].yielded) <= n_points
            /\ gen[i].state = "finished" => Len(gen[i].yielded) = n_points
            /\ \A p \in 1..Len(gen[i].yielded) :
                   \E j \in 1..Len(heap[gen[i].grid_.id]) :
                       PointOf(gen[i].yielded[p], heap[heap[gen[i].grid_.id][j].id])

Ended(a) == a.state \in {"finished", "raised"}

\* the two iterations a and b have gone the same way as far as both have gone
Agree(a, b) ==
    /\ \A p \in 1..Len(a.yielded) : p <= Len(b.yielded) => a.yielded[p] = b.yielded[p]
    /\ (Ended(a) /\ Ended(b)) =>
           a.yielded = b.yielded /\ a.state = b.state /\ a.exc = b.exc

\* C2: with an integer seed, the calls of sample_points with the same grid,
\* n_points and seed yield the same tuples, on every code path.
C2_SeedDeterminesPoints ==
    random_state.k = "int" =>
        \A i, j \in Calls : Agree(gen[i], gen[j])

\* The branch of line 287 alone: with an integer seed and a scipy of version
\* 0.16 or later the iterations agree; the disagreement comes from line 285.
SeededBranchAgrees ==
    (random_state.k = "int" /\ ~sp_old) =>
        \A i, j \in Calls : Agree(gen[i], gen[j])

\* C10: an error of normalisation reaches the caller from the call of
\* sample_points, never from an iteration of the sequence it handed back.
C10_NormalisationErrorAtTheCall ==
    \A i \in Calls : ~(gen[i].state = "raised" /\ gen[i].at = "check_grid")

====
